---- MODULE Spec2Model ----
(***************************************************************************)
(* Model of src/src/ngx_http_brokerlog_zmq.c: the life cycle of a          *)
(* location's ZMQ context and publisher socket (zmq_create_ctx,            *)
(* zmq_init_ctx, zmq_create_socket, zmq_term_ctx) and the message framer   *)
(* brokerlog_serialize_zmq.                                                *)
(*                                                                         *)
(* The calls modelled are calls on a scope: cf, cf->ctx and cf->server are *)
(* non-NULL, so the guard of line 68 is false.  The ZMQ library and the    *)
(* allocators of brokerlog_serialize_zmq are the environment: every call   *)
(* into them that can fail fails or succeeds nondeterministically (the     *)
(* calloc of line 144 is taken to succeed).  The log sink ctx->log is the  *)
(* caller's: the model keeps the field, which zmq_term_ctx clears, and     *)
(* leaves the ngx_log_* calls out.                                         *)
(***************************************************************************)
EXTENDS Integers, Sequences, FiniteSets, TLC

(* ---------------------------- bounds ---------------------------------- *)
\* execution flows that may call into one scope
NumFlows == 2
\* calls started on the scope in one behaviour
MaxCalls == 5
\* longest endpoint / data given to brokerlog_serialize_zmq
MaxLen == 2
\* largest byte value of the byte alphabet 0..MaxByte (0 is '\0')
MaxByte == 2

(* --------------------------- constants -------------------------------- *)
NULL == 0
NGX_OK == 0
NGX_ERROR == -1
ZMQ_NGINX_QUEUE_LENGTH == 1000
ZMQ_NGINX_LINGER == 0

Flows == 1..NumFlows
\* values of cf->iothreads, cf->qlen and cf->server->connection
IoThreads == {1, 2}
\* -1 is nginx's "directive not given" value
QLens == {-1, ZMQ_NGINX_QUEUE_LENGTH, 5}
Connections == {"", "tcp://h:1"}
Bytes == 0..MaxByte

VARIABLES
    ctx,        \* ngx_http_brokerlog_ctx_t: the scope
    cf,         \* ngx_http_brokerlog_element_conf_t: the configuration read
    pc,         \* per flow: the statement it is at ("idle": not in a call)
    rc,         \* per flow: the value its last finished call returned
    loc,        \* per flow: the locals of zmq_create_socket
    engines,    \* ZMQ library: every context zmq_init returned, by handle
    sockets,    \* ZMQ library: every socket zmq_socket returned, by handle
    heap,       \* connection buffers calloc'ed and not yet freed
    calls,      \* number of calls started
    inits,      \* number of zmq_init calls made
    hist,       \* history of the finished calls (see NoHist)
    ser         \* the state of one brokerlog_serialize_zmq call

vars == <<ctx, cf, pc, rc, loc, engines, sockets, heap, calls, inits,
          hist, ser>>
scopeVars == <<ctx, cf, pc, rc, loc, engines, sockets, heap, calls, inits,
               hist>>

\* no value returned (yet, or a void function)
NoRet == <<>>
\* lastDone: the operation of the last finished call; lastFail: the step it
\* failed at ("none": it did not fail); termRan: a zmq_term_ctx call has
\* finished; ctxOks: the zmq_create_ctx calls that returned 0
NoHist == [lastDone |-> "none", lastFail |-> "none", termRan |-> FALSE,
           ctxOks |-> 0]
NoLoc == [qlen |-> 0, linger |-> 0, connection |-> ""]

(* ------------------------- the ZMQ library ---------------------------- *)
LiveEngine(h) == h \in 1..Len(engines) /\ engines[h].state = "live"
LiveSocket(s) == s \in 1..Len(sockets) /\ sockets[s].state = "open"

\* uint64_t qlen = (uint64_t) cf->qlen; a negative value wraps to 2^64 + v,
\* kept symbolically (TLC integers are 32 bits wide)
CastUint64(v) == IF v >= 0 THEN [wrapped |-> FALSE, v |-> v]
                 ELSE [wrapped |-> TRUE, v |-> v]

(* ------------------------ return from a call -------------------------- *)
Return(f, op, r, fail) ==
    /\ pc' = [pc EXCEPT ![f] = "idle"]
    /\ rc' = [rc EXCEPT ![f] = r]
    /\ hist' = [lastDone |-> op, lastFail |-> fail,
                termRan |-> (hist.termRan \/ op = "zmq_term_ctx"),
                ctxOks |-> IF op = "zmq_create_ctx" /\ r = <<0>>
                           THEN hist.ctxOks + 1 ELSE hist.ctxOks]

Goto(f, label) ==
    /\ pc' = [pc EXCEPT ![f] = label]
    /\ UNCHANGED <<rc, hist>>

\* the worker is flow 1: it runs one call at a time, each to its return
\* (the other flows only step where calls are made concurrently)
Sequential(f) == f = 1 /\ \A g \in Flows : pc[g] = "idle"

(* --------------------------- zmq_create_ctx --------------------------- *)
BeginCreateCtx(f) ==
    /\ pc[f] = "idle"
    /\ calls < MaxCalls
    /\ calls' = calls + 1
    /\ \E io \in IoThreads : cf' = [cf EXCEPT !.iothreads = io]
    /\ Goto(f, "cc_check")
    /\ UNCHANGED <<ctx, loc, engines, sockets, heap, inits, ser>>

\* fault variant of CreateCtxCheck: iothreads is copied before the ccreated
\* test
CreateCtxCheckCopiesFirst(f) ==
    /\ pc[f] = "cc_check"
    /\ ctx' = [ctx EXCEPT !.iothreads = cf.iothreads]
    /\ IF ctx.ccreated = 1
       THEN Return(f, "zmq_create_ctx", <<0>>, "none")
       ELSE Goto(f, "cc_init")
    /\ UNCHANGED <<cf, loc, engines, sockets, heap, calls, inits, ser>>

\* fault variant of CreateCtxCheck: the ccreated test is missing
CreateCtxCheckNoGuard(f) ==
    /\ pc[f] = "cc_check"
    /\ ctx' = [ctx EXCEPT !.iothreads = cf.iothreads]
    /\ Goto(f, "cc_init")
    /\ UNCHANGED <<cf, loc, engines, sockets, heap, calls, inits, ser>>

\* lines 72-79: return 0 if the context is already created, else copy the
\* configured iothreads into the scope
CreateCtxCheck(f) ==
    /\ pc[f] = "cc_check"
    /\ IF ctx.ccreated = 1
       THEN /\ Return(f, "zmq_create_ctx", <<0>>, "none")
            /\ UNCHANGED ctx
       ELSE /\ ctx' = [ctx EXCEPT !.iothreads = cf.iothreads]
            /\ Goto(f, "cc_init")
    /\ UNCHANGED <<cf, loc, engines, sockets, heap, calls, inits, ser>>

\* fault variant of ZmqInitCtx: ccreated is set before the NULL test
ZmqInitCtxFlagFirst(f) ==
    /\ pc[f] = "cc_init"
    /\ inits' = inits + 1
    /\ \E ok \in BOOLEAN :
         IF ok
         THEN /\ engines' = Append(engines,
                     [state |-> "live", iothreads |-> ctx.iothreads, terms |-> 0])
              /\ ctx' = [ctx EXCEPT !.zmq_context = Len(engines) + 1]
              /\ Goto(f, "cc_set")
         ELSE /\ engines' = engines
              /\ ctx' = [ctx EXCEPT !.zmq_context = NULL, !.ccreated = 1]
              /\ Return(f, "zmq_create_ctx", <<-1>>, "init")
    /\ UNCHANGED <<cf, loc, sockets, heap, calls, ser>>

\* zmq_init_ctx lines 42-46 and zmq_create_ctx lines 80-86: zmq_init
\* returns a new context or NULL; on NULL both functions return -1
ZmqInitCtx(f) ==
    /\ pc[f] = "cc_init"
    /\ inits' = inits + 1
    /\ \E ok \in BOOLEAN :
         IF ok
         THEN /\ engines' = Append(engines,
                     [state |-> "live", iothreads |-> ctx.iothreads, terms |-> 0])
              /\ ctx' = [ctx EXCEPT !.zmq_context = Len(engines) + 1]
              /\ Goto(f, "cc_set")
         ELSE /\ engines' = engines
              /\ ctx' = [ctx EXCEPT !.zmq_context = NULL]
              /\ Return(f, "zmq_create_ctx", <<-1>>, "init")
    /\ UNCHANGED <<cf, loc, sockets, heap, calls, ser>>

\* zmq_init_ctx lines 47-49 and zmq_create_ctx lines 88-89
SetCcreated(f) ==
    /\ pc[f] = "cc_set"
    /\ ctx' = [ctx EXCEPT !.ccreated = 1]
    /\ Return(f, "zmq_create_ctx", <<0>>, "none")
    /\ UNCHANGED <<cf, loc, engines, sockets, heap, calls, inits, ser>>

(* ---------------------------- zmq_term_ctx ---------------------------- *)
BeginTermCtx(f) ==
    /\ pc[f] = "idle"
    /\ calls < MaxCalls
    /\ calls' = calls + 1
    /\ Goto(f, "t_socket")
    /\ UNCHANGED <<ctx, cf, loc, engines, sockets, heap, inits, ser>>

\* zmq_close(s): closes an open socket
ZmqClose(s) ==
    IF s \in 1..Len(sockets)
    THEN [sockets EXCEPT ![s].state = "closed", ![s].closes = @ + 1]
    ELSE sockets

\* zmq_term(h): terminates a context
ZmqTerm(h) ==
    IF h \in 1..Len(engines)
    THEN [engines EXCEPT ![h].state = "terminated", ![h].terms = @ + 1]
    ELSE engines

\* fault variant of TermSocket: the handle is cleared, the socket not closed
TermSocketNoClose(f) ==
    /\ pc[f] = "t_socket"
    /\ ctx' = [ctx EXCEPT !.zmq_socket = NULL]
    /\ Goto(f, "t_context")
    /\ UNCHANGED <<cf, loc, engines, sockets, heap, calls, inits, ser>>

\* fault variant of TermSocket: the socket is closed, the handle not cleared
TermSocketKeepsHandle(f) ==
    /\ pc[f] = "t_socket"
    /\ IF ctx.zmq_socket # NULL
       THEN sockets' = ZmqClose(ctx.zmq_socket)
       ELSE UNCHANGED sockets
    /\ Goto(f, "t_context")
    /\ UNCHANGED <<ctx, cf, loc, engines, heap, calls, inits, ser>>

\* fault variant of TermSocket: the socket is left alone
TermSocketSkipped(f) ==
    /\ pc[f] = "t_socket"
    /\ Goto(f, "t_context")
    /\ UNCHANGED <<ctx, cf, loc, engines, sockets, heap, calls, inits, ser>>

\* lines 105-109
TermSocket(f) ==
    /\ pc[f] = "t_socket"
    /\ IF ctx.zmq_socket # NULL
       THEN /\ sockets' = ZmqClose(ctx.zmq_socket)
            /\ ctx' = [ctx EXCEPT !.zmq_socket = NULL]
       ELSE UNCHANGED <<sockets, ctx>>
    /\ Goto(f, "t_context")
    /\ UNCHANGED <<cf, loc, engines, heap, calls, inits, ser>>

\* fault variant of TermContext: the context is terminated, the handle not
\* cleared
TermContextKeepsHandle(f) ==
    /\ pc[f] = "t_context"
    /\ IF ctx.zmq_context # NULL
       THEN engines' = ZmqTerm(ctx.zmq_context)
       ELSE UNCHANGED engines
    /\ Goto(f, "t_log")
    /\ UNCHANGED <<ctx, cf, loc, sockets, heap, calls, inits, ser>>

\* lines 111-115
TermContext(f) ==
    /\ pc[f] = "t_context"
    /\ IF ctx.zmq_context # NULL
       THEN /\ engines' = ZmqTerm(ctx.zmq_context)
            /\ ctx' = [ctx EXCEPT !.zmq_context = NULL]
       ELSE UNCHANGED <<engines, ctx>>
    /\ Goto(f, "t_log")
    /\ UNCHANGED <<cf, loc, sockets, heap, calls, inits, ser>>

\* lines 117-121
TermLog(f) ==
    /\ pc[f] = "t_log"
    /\ ctx' = [ctx EXCEPT !.log = NULL]
    /\ Return(f, "zmq_term_ctx", NoRet, "none")
    /\ UNCHANGED <<cf, loc, engines, sockets, heap, calls, inits, ser>>

(* -------------------------- zmq_create_socket ------------------------- *)
BeginCreateSocket(f) ==
    /\ pc[f] = "idle"
    /\ calls < MaxCalls
    /\ calls' = calls + 1
    /\ \E q \in QLens, c \in Connections :
         cf' = [cf EXCEPT !.qlen = q, !.connection = c]
    /\ Goto(f, "cs_enter")
    /\ UNCHANGED <<ctx, loc, engines, sockets, heap, inits, ser>>

\* fault variant of QueueLength: the test of line 150 is inverted
QueueLengthInverted(cfqlen) ==
    IF CastUint64(cfqlen) = CastUint64(ZMQ_NGINX_QUEUE_LENGTH)
    THEN CastUint64(cfqlen)
    ELSE CastUint64(ZMQ_NGINX_QUEUE_LENGTH)

\* lines 149-152: the queue length handed to ZMQ_HWM
QueueLength(cfqlen) ==
    IF CastUint64(cfqlen) # CastUint64(ZMQ_NGINX_QUEUE_LENGTH)
    THEN CastUint64(cfqlen)
    ELSE CastUint64(ZMQ_NGINX_QUEUE_LENGTH)

\* lines 138-152: the locals, and the calloc'ed copy of the connection name
CreateSocketEnter(f) ==
    /\ pc[f] = "cs_enter"
    /\ heap' = heap + 1
    /\ loc' = [loc EXCEPT ![f] = [qlen |-> QueueLength(cf.qlen),
                                  linger |-> ZMQ_NGINX_LINGER,
                                  connection |-> cf.connection]]
    /\ Goto(f, "cs_context")
    /\ UNCHANGED <<ctx, cf, engines, sockets, calls, inits, ser>>

\* fault variant of CreateSocketCheckCtx: the context test is missing
CreateSocketCheckCtxSkipped(f) ==
    /\ pc[f] = "cs_context"
    /\ Goto(f, "cs_socket")
    /\ UNCHANGED <<ctx, cf, loc, engines, sockets, heap, calls, inits, ser>>

\* lines 154-158: no context, return -1 (the connection buffer is not freed)
CreateSocketCheckCtx(f) ==
    /\ pc[f] = "cs_context"
    /\ IF ctx.zmq_context = NULL
       THEN Return(f, "zmq_create_socket", <<-1>>, "context")
       ELSE Goto(f, "cs_socket")
    /\ UNCHANGED <<ctx, cf, loc, engines, sockets, heap, calls, inits, ser>>

NewSocket(owner) ==
    [owner |-> owner, state |-> "open", linger |-> <<>>, hwm |-> <<>>,
     connects |-> 0, closes |-> 0]

\* fault variant of CreateSocketSocket: the screated test is missing
CreateSocketSocketNoGuard(f) ==
    /\ pc[f] = "cs_socket"
    /\ \E ok \in BOOLEAN :
         IF ok /\ LiveEngine(ctx.zmq_context)
         THEN /\ sockets' = Append(sockets,
                     [owner |-> ctx.zmq_context, state |-> "open",
                      linger |-> <<>>, hwm |-> <<>>, connects |-> 0, closes |-> 0])
              /\ ctx' = [ctx EXCEPT !.zmq_socket = Len(sockets) + 1,
                                    !.screated = 1]
              /\ Goto(f, "cs_linger")
         ELSE /\ sockets' = sockets
              /\ ctx' = [ctx EXCEPT !.zmq_socket = NULL]
              /\ Return(f, "zmq_create_socket", <<-1>>, "socket")
    /\ UNCHANGED <<cf, loc, engines, heap, calls, inits, ser>>

\* fault variant of CreateSocketSocket: screated is set before the NULL test
CreateSocketSocketFlagFirst(f) ==
    /\ pc[f] = "cs_socket"
    /\ IF ctx.screated = 0
       THEN \E ok \in BOOLEAN :
              IF ok /\ LiveEngine(ctx.zmq_context)
              THEN /\ sockets' = Append(sockets, NewSocket(ctx.zmq_context))
                   /\ ctx' = [ctx EXCEPT !.zmq_socket = Len(sockets) + 1,
                                         !.screated = 1]
                   /\ Goto(f, "cs_linger")
              ELSE /\ sockets' = sockets
                   /\ ctx' = [ctx EXCEPT !.zmq_socket = NULL, !.screated = 1]
                   /\ Return(f, "zmq_create_socket", <<-1>>, "socket")
       ELSE /\ UNCHANGED <<sockets, ctx>>
            /\ Goto(f, "cs_linger")
    /\ UNCHANGED <<cf, loc, engines, heap, calls, inits, ser>>

\* lines 160-171: create the socket unless screated says there is one;
\* zmq_socket returns a new socket of a live context, or NULL
CreateSocketSocket(f) ==
    /\ pc[f] = "cs_socket"
    /\ IF ctx.screated = 0
       THEN \E ok \in BOOLEAN :
              IF ok /\ LiveEngine(ctx.zmq_context)
              THEN /\ sockets' = Append(sockets, NewSocket(ctx.zmq_context))
                   /\ ctx' = [ctx EXCEPT !.zmq_socket = Len(sockets) + 1,
                                         !.screated = 1]
                   /\ Goto(f, "cs_linger")
              ELSE /\ sockets' = sockets
                   /\ ctx' = [ctx EXCEPT !.zmq_socket = NULL]
                   /\ Return(f, "zmq_create_socket", <<-1>>, "socket")
       ELSE /\ UNCHANGED <<sockets, ctx>>
            /\ Goto(f, "cs_linger")
    /\ UNCHANGED <<cf, loc, engines, heap, calls, inits, ser>>

\* fault variant of CreateSocketLinger: the result of zmq_setsockopt is not
\* tested
CreateSocketLingerUnchecked(f) ==
    /\ pc[f] = "cs_linger"
    /\ \E ok \in BOOLEAN :
         IF ok /\ LiveSocket(ctx.zmq_socket)
         THEN sockets' = [sockets EXCEPT ![ctx.zmq_socket].linger = <<loc[f].linger>>]
         ELSE sockets' = sockets
    /\ Goto(f, "cs_hwm")
    /\ UNCHANGED <<ctx, cf, loc, engines, heap, calls, inits, ser>>

\* lines 173-179: zmq_setsockopt(ZMQ_LINGER) on the scope's socket handle;
\* it fails on a handle that is not an open socket
CreateSocketLinger(f) ==
    /\ pc[f] = "cs_linger"
    /\ \E ok \in BOOLEAN :
         IF ok /\ LiveSocket(ctx.zmq_socket)
         THEN /\ sockets' = [sockets EXCEPT ![ctx.zmq_socket].linger = <<loc[f].linger>>]
              /\ Goto(f, "cs_hwm")
         ELSE /\ sockets' = sockets
              /\ Return(f, "zmq_create_socket", <<-1>>, "linger")
    /\ UNCHANGED <<ctx, cf, loc, engines, heap, calls, inits, ser>>

\* lines 181-187: zmq_setsockopt(ZMQ_HWM)
CreateSocketHwm(f) ==
    /\ pc[f] = "cs_hwm"
    /\ \E ok \in BOOLEAN :
         IF ok /\ LiveSocket(ctx.zmq_socket)
         THEN /\ sockets' = [sockets EXCEPT ![ctx.zmq_socket].hwm = <<loc[f].qlen>>]
              /\ Goto(f, "cs_connect")
         ELSE /\ sockets' = sockets
              /\ Return(f, "zmq_create_socket", <<-1>>, "hwm")
    /\ UNCHANGED <<ctx, cf, loc, engines, heap, calls, inits, ser>>

\* fault variant of CreateSocketConnect: a failed connect closes the socket
CreateSocketConnectClosesOnFailure(f) ==
    /\ pc[f] = "cs_connect"
    /\ \E ok \in BOOLEAN :
         IF ok /\ LiveSocket(ctx.zmq_socket) /\ loc[f].connection # ""
         THEN /\ sockets' = [sockets EXCEPT ![ctx.zmq_socket].connects = @ + 1]
              /\ ctx' = ctx
              /\ Goto(f, "cs_free")
         ELSE /\ sockets' = ZmqClose(ctx.zmq_socket)
              /\ ctx' = [ctx EXCEPT !.zmq_socket = NULL]
              /\ Return(f, "zmq_create_socket", <<-1>>, "connect")
    /\ UNCHANGED <<cf, loc, engines, heap, calls, inits, ser>>

\* lines 189-195: zmq_connect; it fails on an empty address and on a handle
\* that is not an open socket, and may fail otherwise
CreateSocketConnect(f) ==
    /\ pc[f] = "cs_connect"
    /\ \E ok \in BOOLEAN :
         IF ok /\ LiveSocket(ctx.zmq_socket) /\ loc[f].connection # ""
         THEN /\ sockets' = [sockets EXCEPT ![ctx.zmq_socket].connects = @ + 1]
              /\ Goto(f, "cs_free")
         ELSE /\ sockets' = sockets
              /\ Return(f, "zmq_create_socket", <<-1>>, "connect")
    /\ UNCHANGED <<ctx, cf, loc, engines, heap, calls, inits, ser>>

\* lines 198-202: free(connection); return rc, which is 0 here
CreateSocketFree(f) ==
    /\ pc[f] = "cs_free"
    /\ heap' = heap - 1
    /\ Return(f, "zmq_create_socket", <<0>>, "none")
    /\ UNCHANGED <<ctx, cf, loc, engines, sockets, calls, inits, ser>>

(* ------------------------- the specifications ------------------------- *)
\* a scope as the module allocates it: zeroed, with its log set
InitScope ==
    /\ ctx = [iothreads |-> 0, zmq_context |-> NULL, zmq_socket |-> NULL,
              ccreated |-> 0, screated |-> 0, log |-> 1]
    /\ cf = [iothreads |-> 1, qlen |-> ZMQ_NGINX_QUEUE_LENGTH, connection |-> "tcp://h:1"]
    /\ pc = [f \in Flows |-> "idle"]
    /\ rc = [f \in Flows |-> NoRet]
    /\ loc = [f \in Flows |-> NoLoc]
    /\ engines = <<>>
    /\ sockets = <<>>
    /\ heap = 0
    /\ calls = 0
    /\ inits = 0
    /\ hist = NoHist

(* ----------------------- brokerlog_serialize_zmq ---------------------- *)
Min(a, b) == IF a < b THEN a ELSE b

\* the ngx_str_t values: byte sequences of length 0..MaxLen, not terminated
ByteStrings == UNION {[1..n -> Bytes] : n \in 0..MaxLen}

Zeros(n) == [i \in 1..n |-> 0]

\* strnlen(s, n): the bytes of s before its first '\0', at most n
Strnlen(s, n) ==
    LET m == Min(n, Len(s))
        z == {i \in 1..m : s[i] = 0}
    IN  IF z = {} THEN m ELSE (CHOOSE i \in z : \A j \in z : i <= j) - 1

\* strndup(s, n): a new buffer of strnlen(s, n) + 1 bytes, '\0' terminated
Strndup(s, n) == SubSeq(s, 1, Strnlen(s, n)) \o <<0>>

\* strncat(dest, src, n) on the buffer dest: at most n bytes of src, up to
\* its first '\0', are written at dest's terminator, then a '\0'
Strncat(dest, src, n) ==
    LET d == Strnlen(dest, Len(dest))
        k == Strnlen(src, n)
    IN  [i \in 1..Len(dest) |->
           IF i <= d THEN dest[i]
           ELSE IF i <= d + k THEN src[i - d]
           ELSE IF i = d + k + 1 THEN 0
           ELSE dest[i]]

SerStart(e, d) ==
    [pc |-> "strndup", endpoint |-> e, data |-> d, msg_len |-> 0,
     endp |-> <<>>, msg |-> <<>>, output |-> [len |-> 0, data |-> <<>>],
     endpHeld |-> FALSE, msgHeld |-> FALSE, rv |-> <<>>]

SerReturn(r) == [ser EXCEPT !.pc = "done", !.rv = <<r>>]

\* lines 227-232: msg_len and the strndup of the endpoint
SerializeStrndup ==
    /\ ser.pc = "strndup"
    /\ \E ok \in BOOLEAN :
         ser' = IF ok
                THEN [ser EXCEPT !.pc = "terminate",
                        !.msg_len = Len(ser.endpoint) + Len(ser.data) + 1,
                        !.endp = Strndup(ser.endpoint, Len(ser.endpoint)),
                        !.endpHeld = TRUE]
                ELSE [SerReturn(NGX_ERROR) EXCEPT
                        !.msg_len = Len(ser.endpoint) + Len(ser.data) + 1]
    /\ UNCHANGED scopeVars

\* line 235: endp[endpoint->len] = '\0'.  When the endpoint holds a '\0' the
\* strndup'ed buffer is shorter than endpoint->len + 1 and the store is out
\* of bounds: the process dies, or goes on with the buffer as it was
SerializeTerminate ==
    /\ ser.pc = "terminate"
    /\ IF Len(ser.endpoint) + 1 <= Len(ser.endp)
       THEN ser' = [ser EXCEPT !.pc = "scratch",
                      !.endp[Len(ser.endpoint) + 1] = 0]
       ELSE \E dies \in BOOLEAN :
              ser' = [ser EXCEPT !.pc = IF dies THEN "crashed" ELSE "scratch"]
    /\ UNCHANGED scopeVars

\* lines 237-241: the zeroed scratch buffer of msg_len bytes
SerializeScratch ==
    /\ ser.pc = "scratch"
    /\ \E ok \in BOOLEAN :
         ser' = IF ok
                THEN [ser EXCEPT !.pc = "cat", !.msg = Zeros(ser.msg_len),
                                 !.msgHeld = TRUE]
                ELSE SerReturn(NGX_ERROR)
    /\ UNCHANGED scopeVars

\* lines 243-255: the two strncat calls (strncat never returns NULL)
SerializeCat ==
    /\ ser.pc = "cat"
    /\ ser' = [ser EXCEPT !.pc = "output",
                 !.msg = Strncat(Strncat(ser.msg, ser.endp, Len(ser.endpoint)),
                                 ser.data, Len(ser.data))]
    /\ UNCHANGED scopeVars

\* lines 257-267: output->len, the output buffer and the memcpy into it.
\* The memcpy comes before the NULL test: with a NULL buffer and a length
\* above 0 the process dies, or the test is reached and NGX_ERROR returned
SerializeOutput ==
    /\ ser.pc = "output"
    /\ \E ok \in BOOLEAN :
         IF ok
         THEN ser' = [ser EXCEPT !.pc = "free",
                        !.output = [len |-> ser.msg_len - 1,
                                    data |-> SubSeq(ser.msg, 1, ser.msg_len - 1)]]
         ELSE \E dies \in BOOLEAN :
                ser' = IF dies /\ ser.msg_len - 1 > 0
                       THEN [ser EXCEPT !.pc = "crashed",
                               !.output = [len |-> ser.msg_len - 1, data |-> <<>>]]
                       ELSE [SerReturn(NGX_ERROR) EXCEPT
                               !.output = [len |-> ser.msg_len - 1, data |-> <<>>],
                               !.endpHeld = FALSE, !.msgHeld = FALSE]
    /\ UNCHANGED scopeVars

\* lines 269-272
SerializeFree ==
    /\ ser.pc = "free"
    /\ ser' = [SerReturn(NGX_OK) EXCEPT !.endpHeld = FALSE, !.msgHeld = FALSE]
    /\ UNCHANGED scopeVars

SerIdle == [pc |-> "none"]

Init == InitScope /\ ser = SerIdle

CallCreateCtx(f) == Sequential(f) /\ BeginCreateCtx(f)
CallCreateSocket(f) == Sequential(f) /\ BeginCreateSocket(f)
CallTermCtx(f) == Sequential(f) /\ BeginTermCtx(f)

\* the statements of a call that has been entered
Statement(f) ==
    \/ CreateCtxCheck(f)
    \/ ZmqInitCtx(f)
    \/ SetCcreated(f)
    \/ CreateSocketEnter(f)
    \/ CreateSocketCheckCtx(f)
    \/ CreateSocketSocket(f)
    \/ CreateSocketLinger(f)
    \/ CreateSocketHwm(f)
    \/ CreateSocketConnect(f)
    \/ CreateSocketFree(f)
    \/ TermSocket(f)
    \/ TermContext(f)
    \/ TermLog(f)

\* the worker: one call at a time, each run to its return
Next ==
    \E f \in Flows :
        \/ CallCreateCtx(f)
        \/ CallCreateSocket(f)
        \/ CallTermCtx(f)
        \/ Statement(f)

Spec == Init /\ [][Next]_vars

\* flows that run zmq_create_ctx concurrently on the scope, interleaved at
\* the ccreated check, the zmq_init call and the ccreated write
NextRace ==
    \E f \in Flows :
        \/ BeginCreateCtx(f)
        \/ CreateCtxCheck(f)
        \/ ZmqInitCtx(f)
        \/ SetCcreated(f)

SpecRace == Init /\ [][NextRace]_vars

\* one brokerlog_serialize_zmq call on every pair of inputs
InitFrame ==
    /\ InitScope
    /\ \E e \in ByteStrings, d \in ByteStrings : ser = SerStart(e, d)

NextFrame ==
    \/ SerializeStrndup
    \/ SerializeTerminate
    \/ SerializeScratch
    \/ SerializeCat
    \/ SerializeOutput
    \/ SerializeFree

SpecFrame == InitFrame /\ [][NextFrame]_vars

(* ------------------------------ claims -------------------------------- *)
SerOk == ser.pc = "done" /\ ser.rv = <<NGX_OK>>

\* C1: for every non-empty endpoint and non-empty data over the byte
\* alphabet (the zero byte included), a brokerlog_serialize_zmq call that
\* returned NGX_OK left output = endpoint followed by data, with
\* output->len = endpoint->len + data->len.
C1_FrameIsConcatenation ==
    (SerOk /\ ser.endpoint # <<>> /\ ser.data # <<>>) =>
        /\ ser.output.data = ser.endpoint \o ser.data
        /\ ser.output.len = Len(ser.endpoint) + Len(ser.data)

AllIdle == \A f \in Flows : pc[f] = "idle"
InCreateCtx(f) == pc[f] \in {"cc_check", "cc_init", "cc_set"}
InCreateSocket(f) ==
    pc[f] \in {"cs_enter", "cs_context", "cs_socket", "cs_linger", "cs_hwm",
               "cs_connect", "cs_free"}
InTermCtx(f) == pc[f] \in {"t_socket", "t_context", "t_log"}

\* C2: in a sequential series of calls, once a zmq_create_ctx call has
\* returned 0, no later step calls zmq_init or allocates an engine, every
\* later zmq_create_ctx call returns 0 straight from the ccreated check, and
\* at most one engine is ever allocated for the scope.
C2_CreateCtxOnce ==
    /\ [](Len(engines) <= 1)
    /\ [][hist.ctxOks > 0 =>
            /\ inits' = inits
            /\ Len(engines') = Len(engines)
            /\ \A f \in Flows :
                 pc[f] = "cc_check" /\ pc'[f] # "cc_check" =>
                     pc'[f] = "idle" /\ rc'[f] = <<0>>]_vars

\* C2 witness: a second zmq_create_ctx call has returned 0 after a single
\* zmq_init call
C2_Witness == hist.ctxOks >= 2 /\ inits = 1 /\ Len(engines) = 1

\* C3: when the flows run zmq_create_ctx concurrently on the scope, exactly
\* one engine is created: never more than one, and one whenever a caller
\* has been given 0.
C3_RaceCreatesOneEngine ==
    /\ Len(engines) <= 1
    /\ \A f \in Flows : pc[f] = "idle" /\ rc[f] = <<0>> => Len(engines) = 1

\* C4: over any sequence of zmq_create_ctx, zmq_create_socket and
\* zmq_term_ctx calls the scope has, or has had, at most one socket, and no
\* step creates a socket while screated is set.
C4_CreateSocketOnce ==
    /\ [](Len(sockets) <= 1)
    /\ [][ctx.screated = 1 => Len(sockets') = Len(sockets)]_vars

\* C4 witness: a second zmq_create_socket call has gone through the screated
\* test and connected the one socket again
C4_Witness == Len(sockets) = 1 /\ sockets[1].connects >= 2

\* C5: zmq_create_socket never succeeds before a zmq_create_ctx call has
\* succeeded: until then no socket exists, no call reaches the socket,
\* option or connect steps and no call returns 0; and a call that finds no
\* context returns an error at once, leaving the library untouched.
C5_NoSocketBeforeContext ==
    /\ [](hist.ctxOks = 0 =>
            /\ sockets = <<>>
            /\ \A f \in Flows :
                 /\ pc[f] \notin {"cs_socket", "cs_linger", "cs_hwm",
                                  "cs_connect", "cs_free"}
                 /\ rc[f] # <<0>>)
    /\ [][\A f \in Flows :
            pc[f] = "cs_context" /\ ctx.zmq_context = NULL /\ pc'[f] # pc[f] =>
                /\ pc'[f] = "idle"
                /\ rc'[f] # <<0>>
                /\ sockets' = sockets
                /\ ctx' = ctx]_vars

\* C5 witness: a zmq_create_socket call made before any context was created
\* has returned its error
C5_Witness ==
    /\ AllIdle
    /\ hist.ctxOks = 0
    /\ hist.lastDone = "zmq_create_socket"
    /\ hist.lastFail = "context"
    /\ \E f \in Flows : rc[f] = <<-1>>

\* C6: zmq_term_ctx closes the socket and clears its handle strictly before
\* it terminates the context: no open socket belongs to a terminated
\* context, and the step that terminates a context finds the socket handle
\* cleared and every socket of that context closed.
C6_SocketClosedBeforeTerm ==
    /\ [](\A s \in 1..Len(sockets) :
            sockets[s].state = "open" => engines[sockets[s].owner].state = "live")
    /\ [][\A h \in 1..Len(engines) :
            engines[h].state = "live" /\ engines'[h].state = "terminated" =>
                /\ ctx.zmq_socket = NULL
                /\ \A s \in 1..Len(sockets) :
                     sockets[s].owner = h => sockets[s].state = "closed"]_vars

\* C6 witness: inside zmq_term_ctx, the socket is closed and the context is
\* still live
C6_Witness ==
    \E f \in Flows :
        /\ pc[f] = "t_context"
        /\ Len(sockets) = 1 /\ sockets[1].state = "closed"
        /\ ctx.zmq_socket = NULL
        /\ LiveEngine(ctx.zmq_context)

\* C7: zmq_term_ctx is idempotent and safe: a call that follows a finished
\* zmq_term_ctx call changes neither the scope nor the library; a call on a
\* scope holding no handle closes and terminates nothing; and no socket is
\* closed twice, no context terminated twice.
C7_TermIdempotent ==
    /\ [](/\ \A s \in 1..Len(sockets) : sockets[s].closes <= 1
          /\ \A h \in 1..Len(engines) : engines[h].terms <= 1)
    /\ [][(\E f \in Flows : InTermCtx(f)) =>
            /\ hist.lastDone = "zmq_term_ctx" =>
                  ctx' = ctx /\ engines' = engines /\ sockets' = sockets
            /\ ctx.zmq_socket = NULL /\ ctx.zmq_context = NULL =>
                  engines' = engines /\ sockets' = sockets]_vars

\* C7 witness: the second of two consecutive zmq_term_ctx calls, on a scope
\* whose socket and context the first one closed and terminated, is at its
\* last statement
C7_Witness ==
    \E f \in Flows :
        /\ pc[f] = "t_log"
        /\ hist.lastDone = "zmq_term_ctx"
        /\ Len(sockets) = 1 /\ sockets[1].closes = 1
        /\ Len(engines) = 1 /\ engines[1].terms = 1

\* C8: Terminated is absorbing: once a zmq_term_ctx call has finished, from
\* any state, no later call creates a context or a socket, and no
\* zmq_create_socket call returns 0.
C8_TerminatedAbsorbing ==
    [][hist.termRan =>
         /\ Len(engines') = Len(engines)
         /\ Len(sockets') = Len(sockets)
         /\ \A f \in Flows :
              InCreateSocket(f) /\ pc'[f] = "idle" => rc'[f] # <<0>>]_vars

\* C9: when zmq_init fails inside zmq_create_ctx the call returns non-zero
\* and leaves ccreated at 0 and the context handle NULL; and a
\* zmq_create_ctx call that finds ccreated at 0 goes on to zmq_init again.
C9_InitFailureRetried ==
    [][\A f \in Flows :
         /\ (pc[f] = "cc_init" /\ pc'[f] # "cc_init" /\ engines' = engines) =>
               /\ pc'[f] = "idle"
               /\ rc'[f] # NoRet /\ rc'[f] # <<0>>
               /\ ctx'.ccreated = 0
               /\ ctx'.zmq_context = NULL
         /\ (pc[f] = "cc_check" /\ pc'[f] # "cc_check" /\ ctx.ccreated = 0) =>
               pc'[f] = "cc_init"]_vars

\* C9 witness: after a failed zmq_init, a later zmq_create_ctx call has
\* created the context
C9_Witness ==
    /\ AllIdle
    /\ inits = 2 /\ Len(engines) = 1
    /\ ctx.ccreated = 1 /\ LiveEngine(ctx.zmq_context)
    /\ hist.ctxOks = 1

\* C10: when the connect step of zmq_create_socket fails the call returns an
\* error and the scope is not left with screated set and a live socket that
\* was never connected.
C10_ConnectFailureLeavesNoSocket ==
    (AllIdle /\ hist.lastDone = "zmq_create_socket" /\ hist.lastFail = "connect") =>
        /\ \E f \in Flows : rc[f] = <<-1>>
        /\ ~(/\ ctx.screated = 1
             /\ LiveSocket(ctx.zmq_socket)
             /\ sockets[ctx.zmq_socket].connects = 0)

\* C11: within a zmq_create_socket call the steps run in the order create
\* socket, set linger, set HWM, connect, each only after the earlier ones
\* succeeded: the HWM step finds the call's linger set on the socket, the
\* connect step finds its linger and its queue length set, an option is set
\* or a connect made only by the step of that name, and a step that fails
\* returns -1 with nothing more done to the socket.
C11_StepOrder ==
    /\ [](\A f \in Flows :
            /\ pc[f] \in {"cs_hwm", "cs_connect", "cs_free"} =>
                 /\ LiveSocket(ctx.zmq_socket)
                 /\ sockets[ctx.zmq_socket].linger = <<loc[f].linger>>
            /\ pc[f] \in {"cs_connect", "cs_free"} =>
                 sockets[ctx.zmq_socket].hwm = <<loc[f].qlen>>
            /\ pc[f] = "cs_free" => sockets[ctx.zmq_socket].connects >= 1)
    /\ [][\A s \in 1..Len(sockets) :
            /\ sockets'[s].linger # sockets[s].linger =>
                 \E f \in Flows : pc[f] = "cs_linger" /\ pc'[f] = "cs_hwm"
            /\ sockets'[s].hwm # sockets[s].hwm =>
                 \E f \in Flows : pc[f] = "cs_hwm" /\ pc'[f] = "cs_connect"
            /\ sockets'[s].connects # sockets[s].connects =>
                 \E f \in Flows : pc[f] = "cs_connect" /\ pc'[f] = "cs_free"]_vars
    /\ [][\A f \in Flows :
            /\ pc[f] = "cs_socket" => pc'[f] \in {"cs_socket", "cs_linger", "idle"}
            /\ pc[f] = "cs_linger" => pc'[f] \in {"cs_linger", "cs_hwm", "idle"}
            /\ pc[f] = "cs_hwm" => pc'[f] \in {"cs_hwm", "cs_connect", "idle"}
            /\ pc[f] = "cs_connect" => pc'[f] \in {"cs_connect", "cs_free", "idle"}
            /\ (pc[f] \in {"cs_socket", "cs_linger", "cs_hwm", "cs_connect"}
                  /\ pc'[f] = "idle") =>
                 rc'[f] = <<-1>> /\ sockets' = sockets]_vars

\* C11 witness: a call has created the socket, set both options and
\* connected, in that order, and is about to return
C11_Witness ==
    \E f \in Flows :
        /\ pc[f] = "cs_free"
        /\ Len(sockets) = 1
        /\ sockets[1].linger # <<>> /\ sockets[1].hwm # <<>>
        /\ sockets[1].connects = 1

C13_ConnectOnce ==
    /\ \A s \in 1..Len(sockets) : sockets[s].connects <= 1
    /\ (AllIdle /\ hist.lastDone = "zmq_create_socket" /\ hist.lastFail = "none") =>
           /\ LiveSocket(ctx.zmq_socket)
           /\ sockets[ctx.zmq_socket].connects = 1

\* C14: an allocation failure in brokerlog_serialize_zmq is clean: the call
\* returns NGX_ERROR with every temporary buffer released and no frame bytes
\* in the output, and the NULL buffer is never written through (the process
\* does not die in the memcpy of line 261, the only point past the scratch
\* allocation where it can).
C14_AllocFailureClean ==
    /\ (ser.pc = "done" /\ ser.rv = <<NGX_ERROR>>) =>
           /\ ~ser.endpHeld
           /\ ~ser.msgHeld
           /\ ser.output.data = <<>>
    /\ ~(ser.pc = "crashed" /\ ser.msgHeld)

\* The readiness of the scope read from its fields: 0 Uninitialized (no
\* context created), 1 ContextReady (context created, no ready socket),
\* 2 SocketReady (socket created, configured and connected), 3 Terminated
\* (zmq_term_ctx has been called).
Readiness ==
    IF hist.termRan \/ \E f \in Flows : InTermCtx(f) THEN 3
    ELSE IF /\ ctx.screated = 1
            /\ LiveSocket(ctx.zmq_socket)
            /\ sockets[ctx.zmq_socket].linger # <<>>
            /\ sockets[ctx.zmq_socket].hwm # <<>>
            /\ sockets[ctx.zmq_socket].connects >= 1 THEN 2
    ELSE IF ctx.ccreated = 1 THEN 1
    ELSE 0

\* C15 as stated: every step of zmq_create_ctx, zmq_create_socket and
\* zmq_term_ctx leaves the readiness where it is or moves it forward by
\* exactly one state; it never moves backwards and never skips a state.
C15_ReadinessOneStep ==
    [][Readiness' \in {Readiness, Readiness + 1}]_vars

\* C15 amended: the readiness never moves backwards; zmq_create_ctx and
\* zmq_create_socket move it forward by at most one state; only a call of
\* zmq_term_ctx skips states, moving to Terminated from any state.
C15_ReadinessForward ==
    [][/\ Readiness' >= Readiness
       /\ Readiness' > Readiness + 1 =>
              \E f \in Flows : pc[f] = "idle" /\ pc'[f] = "t_socket"]_vars

\* zmq_term_ctx has returned on a scope that had a context and never a socket
C15_Witness ==
    /\ AllIdle
    /\ Readiness = 3
    /\ hist.lastDone = "zmq_term_ctx"
    /\ Len(engines) = 1
    /\ engines[1].state = "terminated"
    /\ sockets = <<>>

\* C16: in every state, inside zmq_term_ctx and after failed create steps
\* included, a live socket handle in the scope implies a live context
\* handle, and every open socket belongs to a context that is not terminated.
C16_SocketImpliesContext ==
    /\ LiveSocket(ctx.zmq_socket) => LiveEngine(ctx.zmq_context)
    /\ \A s \in 1..Len(sockets) :
           sockets[s].state = "open" => LiveEngine(sockets[s].owner)

\* inside zmq_term_ctx: the socket is closed, the context not yet terminated
C16_Witness ==
    \E f \in Flows :
        /\ pc[f] = "t_context"
        /\ LiveEngine(ctx.zmq_context)
        /\ Len(sockets) = 1
        /\ sockets[1].state = "closed"
        /\ hist.lastFail = "connect"

\* C17: a failed lazy-initialisation step is not fatal to a scope that has
\* not been torn down.  Whatever failed before, the flags never claim a
\* resource that is missing (so a later zmq_create_ctx runs zmq_init again,
\* passes the context test of zmq_create_socket once it has succeeded, and
\* the socket steps act on an open socket), and a zmq_create_socket call in
\* which no step failed returns 0 with one live context and one open socket
\* that is configured and connected.
C17_FailureNotFatal ==
    Readiness < 3 =>
        /\ ctx.ccreated = 1 => LiveEngine(ctx.zmq_context)
        /\ ctx.screated = 1 => LiveSocket(ctx.zmq_socket)
        /\ \A f \in Flows :
               /\ pc[f] = "cs_socket" => LiveEngine(ctx.zmq_context)
               /\ pc[f] \in {"cs_linger", "cs_hwm", "cs_connect"} =>
                      LiveSocket(ctx.zmq_socket)
        /\ (AllIdle /\ hist.lastDone = "zmq_create_socket"
                    /\ hist.lastFail = "none") =>
               /\ rc[1] = <<0>>
               /\ Len(engines) = 1
               /\ LiveEngine(ctx.zmq_context)
               /\ Len(sockets) = 1
               /\ LiveSocket(ctx.zmq_socket)
               /\ sockets[1].linger # <<>>
               /\ sockets[1].hwm # <<>>
               /\ sockets[1].connects >= 1

\* zmq_init failed once and a zmq_create_socket call failed once, and the
\* last zmq_create_socket call returned 0
C17_Witness ==
    /\ AllIdle
    /\ ~hist.termRan
    /\ hist.lastDone = "zmq_create_socket"
    /\ hist.lastFail = "none"
    /\ rc[1] = <<0>>
    /\ inits = 2
    /\ heap >= 1
    /\ sockets[1].connects = 1

\* C18: once a zmq_create_ctx call has returned 0, no later step changes
\* ctx->iothreads or the thread count of the context, whatever value
\* cf->iothreads has taken since.
C18_IothreadsFrozen ==
    [][hist.ctxOks > 0 =>
          /\ ctx'.iothreads = ctx.iothreads
          /\ \A h \in 1..Len(engines) :
                 engines'[h].iothreads = engines[h].iothreads]_vars

\* a second zmq_create_ctx call has returned 0 with another cf->iothreads
C18_Witness ==
    /\ AllIdle
    /\ hist.ctxOks >= 2
    /\ hist.lastDone = "zmq_create_ctx"
    /\ cf.iothreads # ctx.iothreads
    /\ LiveEngine(ctx.zmq_context)
    /\ engines[ctx.zmq_context].iothreads = ctx.iothreads

\* C19: over any sequence of zmq_create_ctx, zmq_create_socket and
\* zmq_term_ctx calls, the linger, HWM and connect steps of
\* zmq_create_socket are reached only with a socket handle that is not NULL
\* and names an open socket, also after zmq_term_ctx has cleared the handles
\* and left ccreated and screated at 1.
C19_OptionsOnLiveSocket ==
    \A f \in Flows :
        pc[f] \in {"cs_linger", "cs_hwm", "cs_connect"} =>
            /\ ctx.zmq_socket # NULL
            /\ LiveSocket(ctx.zmq_socket)

\* after a teardown that left both flags at 1, a zmq_create_socket call has
\* returned at the context test
C19_Witness ==
    /\ AllIdle
    /\ hist.termRan
    /\ ctx.ccreated = 1
    /\ ctx.screated = 1
    /\ ctx.zmq_socket = NULL
    /\ hist.lastDone = "zmq_create_socket"
    /\ hist.lastFail = "context"

\* C20: every zmq_create_socket call frees the connection buffer it
\* allocated before it returns, on the success path and on every error
\* path: between calls no connection buffer is left allocated.
C20_ConnectionBufferFreed ==
    AllIdle => heap = 0

====
